---------------------------- MODULE Spec2Model ----------------------------
(***************************************************************************)
(* Model of origin/heaps/pairing_heap.hpp: the three pairing heaps of the  *)
(* file, each an arena of link records (data_), a dense value array        *)
(* (elements_) and a top pointer (top_):                                   *)
(*   "ext"    mutable_pairing_heap<T, Compare, Item_Map>, the locator id_  *)
(*            is a caller-supplied map from an item to a size_t&;          *)
(*   "int"    mutable_pairing_heap<T, Compare, default_t>, the locator is  *)
(*            the heap's own unordered_map map_;                           *)
(*   "simple" pairing_heap<T, Comp>, no update, reversemap_ instead of a   *)
(*            locator;                                                     *)
(*   "impl"   mutable_pairing_heap_impl built by its defaulted default     *)
(*            constructor, alone or as the impl member of a default-       *)
(*            constructed mutable_pairing_heap<T, Compare, Item_Map>.      *)
(* An item is a record [id, val]: id is what the locator keys on, val is   *)
(* what compare_ reads.  Arena and value-array indices are 0-based as in   *)
(* the source; the TLA+ sequences holding them are 1-based, so slot i of a *)
(* vector v is v[i + 1].  size_type(-1) is NONE.                           *)
(***************************************************************************)
EXTENDS Integers, Sequences, FiniteSets, TLC

\* Bounds of the model.
MaxPush == 4         \* push calls per behaviour (data_ never shrinks)
MaxEmptyPop == 1     \* pop calls made on an empty heap per behaviour

MaxVal == 3          \* the callers' priorities are 0 .. MaxVal

\* The priorities the callers use, and the item identities.
Values == 0 .. MaxVal
Ids == 1 .. MaxPush

Variants == {"ext", "int", "simple"}

NONE == -1

VARIABLES
    variant,      \* which of the three classes this heap is
    elements_,    \* std::vector<T> elements_
    data_,        \* std::vector<pairing_heap_node> data_
    top_,         \* size_type top_
    id_,          \* the locator: the external map ("ext") or map_ ("int")
    reversemap_,  \* std::vector<size_type> reversemap_ ("simple")
    ub,           \* an access outside a vector has happened
    env,          \* what the callers of this heap do: the priorities they
                  \* use (vals), the values they push in order (script, <<>>
                  \* when free) and whether every update is a decrease-key
    \* history of the calls, kept for the statements below
    track,        \* arena index of each stored item -> [id, cur]
    npush,        \* push calls
    npop,         \* pop calls made on a non-empty heap
    nemptypop,    \* pop calls made on an empty heap
    misuse,       \* some update gave an item a worse priority
    updated,      \* some update was called
    snap,         \* the values stored after the last push or update
    run,          \* what top() returned before each pop since then
    outcome       \* how the callers' calls went: the exception the last call
                  \* threw (thrown), the precondition it broke (violated),
                  \* what the last top() call returned (returned, <<>> when
                  \* none has returned)

code == <<elements_, data_, top_, id_, reversemap_, ub>>
hist == <<track, npush, npop, nemptypop, misuse, updated, snap, run>>
vars == <<variant, elements_, data_, top_, id_, reversemap_, ub, env,
          track, npush, npop, nemptypop, misuse, updated, snap, run, outcome>>

-----------------------------------------------------------------------------
\* Helpers for vectors and maps.

\* v[i] of a std::vector, i a 0-based index.
At(v, i) == v[i + 1]

\* v.pop_back()
PopBack(v) == SubSeq(v, 1, Len(v) - 1)

\* The key the locator files an item under.
Key(d) == d.id

\* m[k] = x of a map (operator[] creates the entry when it is missing).
MapSet(m, k, x) == [j \in (DOMAIN m) \cup {k} |-> IF j = k THEN x ELSE m[j]]

\* map_.erase(k)
MapErase(m, k) == [j \in (DOMAIN m) \ {k} |-> m[j]]

EmptyMap == [j \in {} |-> 0]

\* compare_(a, b): the strict ordering the heap was built with (less-than).
compare_(a, b) == a.val < b.val

\* pairing_heap_node with the links push gives it.
NewNode(ii) == [item_index |-> ii, parent |-> NONE, child |-> NONE,
                right_sibling |-> NONE, left_sibling |-> NONE]

-----------------------------------------------------------------------------
\* mutable_pairing_heap_impl

\* merge that leaves the left_sibling of the old first child alone.
merge_NoLeftSibling(d, index1, index2) ==
    LET d1 == [d EXCEPT ![index1 + 1].parent = index2]
        d2 == [d1 EXCEPT ![index1 + 1].right_sibling = At(d1, index2).child]
    IN  [d2 EXCEPT ![index2 + 1].child = index1]

\* merge that makes index1 the first child before it reads the old one.
merge_ChildFirst(d, index1, index2) ==
    LET d0 == [d EXCEPT ![index2 + 1].child = index1]
        d1 == [d0 EXCEPT ![index1 + 1].parent = index2]
        d2 == [d1 EXCEPT ![index1 + 1].right_sibling = At(d1, index2).child]
    IN  IF At(d2, index2).child # NONE
        THEN [d2 EXCEPT ![At(d2, index2).child + 1].left_sibling = index1]
        ELSE d2

\* merge(index1, index2): make the tree rooted at index1 the leftmost child
\* of index2.  d is data_.
merge(d, index1, index2) ==
    LET d1 == [d EXCEPT ![index1 + 1].parent = index2]
        d2 == [d1 EXCEPT ![index1 + 1].right_sibling = At(d1, index2).child]
        d3 == IF At(d2, index2).child # NONE
              THEN [d2 EXCEPT ![At(d2, index2).child + 1].left_sibling = index1]
              ELSE d2
    IN  [d3 EXCEPT ![index2 + 1].child = index1]

\* Unite that never lets the new root win.
Unite_KeepTop(e, d, root, index) ==
    [data_ |-> merge(d, index, root), top_ |-> root]

\* Unite that lets the new root win a tie too.
Unite_TieWins(e, d, root, index) ==
    IF ~compare_(At(e, At(d, root).item_index), At(e, At(d, index).item_index))
    THEN [data_ |-> merge(d, root, index), top_ |-> index]
    ELSE [data_ |-> merge(d, index, root), top_ |-> root]

\* The end of push and of update: unite the heap rooted at index with the
\* heap rooted at top.  Gives the new data_ and top_.
Unite(e, d, root, index) ==
    IF compare_(At(e, At(d, index).item_index), At(e, At(d, root).item_index))
    THEN [data_ |-> merge(d, root, index), top_ |-> index]
    ELSE [data_ |-> merge(d, index, root), top_ |-> root]

\* push that takes the arena index of the new node for its value slot (and,
\* that slot holding no value to compare, puts the node under the top).
push_ItemIndexIsArenaIndex(h, x) ==
    LET e1 == Append(h.elements_, x)
        obj == NewNode(Len(h.data_))
        d1 == Append(h.data_, obj)
        index == Len(d1) - 1
        id1 == MapSet(h.id_, Key(x), index)
        u == IF h.top_ = NONE
             THEN [data_ |-> d1, top_ |-> index]
             ELSE [data_ |-> merge(d1, index, h.top_), top_ |-> h.top_]
    IN  [elements_ |-> e1, data_ |-> u.data_, top_ |-> u.top_, id_ |-> id1]

\* push(d): h is the heap [elements_, data_, top_, id_], x the item.
push(h, x) ==
    LET e1 == Append(h.elements_, x)
        obj == NewNode(Len(e1) - 1)
        d1 == Append(h.data_, obj)
        index == Len(d1) - 1
        id1 == MapSet(h.id_, Key(x), index)
        u == IF h.top_ = NONE
             THEN [data_ |-> d1, top_ |-> index]
             ELSE Unite(e1, d1, h.top_, index)
    IN  [elements_ |-> e1, data_ |-> u.data_, top_ |-> u.top_, id_ |-> id1]

\* The three growth steps of push, in its order: elements_.push_back(d),
\* data_.push_back(obj), id_(d) = index (reversemap_.push_back(index) in
\* pairing_heap).
GrowthSteps == {"elements_", "data_", "locator"}

\* push(d) left by std::bad_alloc at growth step k: the steps before k have
\* been made (each step that throws leaves its own container as it was), and
\* nothing of push after k.
push_bad_alloc(h, x, k) ==
    LET e1 == Append(h.elements_, x)
        obj == NewNode(Len(e1) - 1)
        d1 == Append(h.data_, obj)
    IN  CASE k = "elements_" -> h
          [] k = "data_" -> [h EXCEPT !.elements_ = e1]
          [] k = "locator" -> [h EXCEPT !.elements_ = e1, !.data_ = d1]

\* update that stores the new value and leaves the node where it is.
update_OverwriteOnly(h, x) ==
    LET index == h.id_[Key(x)]
    IN  [h EXCEPT !.elements_ =
            [h.elements_ EXCEPT ![At(h.data_, index).item_index + 1] = x]]

\* update that moves the node and does not store the new value.
update_KeepsOldValue(h, x) ==
    LET index == h.id_[Key(x)]
        e1 == h.elements_
        d == h.data_
        parent == At(d, index).parent
        left_sib == At(d, index).left_sibling
        right_sib == At(d, index).right_sibling
        d1 == IF left_sib = NONE
              THEN [d EXCEPT ![parent + 1].child = right_sib]
              ELSE [d EXCEPT ![left_sib + 1].right_sibling = right_sib]
        d2 == IF right_sib # NONE
              THEN [d1 EXCEPT ![right_sib + 1].left_sibling = left_sib]
              ELSE d1
        d3 == [d2 EXCEPT ![index + 1].parent = NONE,
                         ![index + 1].left_sibling = NONE,
                         ![index + 1].right_sibling = NONE]
        u == Unite(e1, d3, h.top_, index)
    IN  IF index = h.top_
        THEN h
        ELSE [elements_ |-> e1, data_ |-> u.data_, top_ |-> u.top_, id_ |-> h.id_]

\* update that leaves the child link of the parent alone when the node is its
\* first child.
update_NoDetachFirst(h, x) ==
    LET index == h.id_[Key(x)]
        e1 == [h.elements_ EXCEPT ![At(h.data_, index).item_index + 1] = x]
        d == h.data_
        left_sib == At(d, index).left_sibling
        right_sib == At(d, index).right_sibling
        d1 == IF left_sib = NONE
              THEN d
              ELSE [d EXCEPT ![left_sib + 1].right_sibling = right_sib]
        d2 == IF right_sib # NONE
              THEN [d1 EXCEPT ![right_sib + 1].left_sibling = left_sib]
              ELSE d1
        d3 == [d2 EXCEPT ![index + 1].parent = NONE,
                         ![index + 1].left_sibling = NONE,
                         ![index + 1].right_sibling = NONE]
        u == Unite(e1, d3, h.top_, index)
    IN  IF index = h.top_
        THEN [h EXCEPT !.elements_ = e1]
        ELSE [elements_ |-> e1, data_ |-> u.data_, top_ |-> u.top_, id_ |-> h.id_]

\* update that tests for the root before it stores the new value.
update_RootReturnsFirst(h, x) ==
    LET index == h.id_[Key(x)]
        e1 == [h.elements_ EXCEPT ![At(h.data_, index).item_index + 1] = x]
        d == h.data_
        parent == At(d, index).parent
        left_sib == At(d, index).left_sibling
        right_sib == At(d, index).right_sibling
        d1 == IF left_sib = NONE
              THEN [d EXCEPT ![parent + 1].child = right_sib]
              ELSE [d EXCEPT ![left_sib + 1].right_sibling = right_sib]
        d2 == IF right_sib # NONE
              THEN [d1 EXCEPT ![right_sib + 1].left_sibling = left_sib]
              ELSE d1
        d3 == [d2 EXCEPT ![index + 1].parent = NONE,
                         ![index + 1].left_sibling = NONE,
                         ![index + 1].right_sibling = NONE]
        u == Unite(e1, d3, h.top_, index)
    IN  IF index = h.top_
        THEN h
        ELSE [elements_ |-> e1, data_ |-> u.data_, top_ |-> u.top_, id_ |-> h.id_]

\* update that leaves an item alone when the new value is worse than the one
\* stored.
update_SkipsWorse(h, x) ==
    LET index == h.id_[Key(x)]
        old == At(h.elements_, At(h.data_, index).item_index)
        e1 == [h.elements_ EXCEPT ![At(h.data_, index).item_index + 1] = x]
        d == h.data_
        parent == At(d, index).parent
        left_sib == At(d, index).left_sibling
        right_sib == At(d, index).right_sibling
        d1 == IF left_sib = NONE
              THEN [d EXCEPT ![parent + 1].child = right_sib]
              ELSE [d EXCEPT ![left_sib + 1].right_sibling = right_sib]
        d2 == IF right_sib # NONE
              THEN [d1 EXCEPT ![right_sib + 1].left_sibling = left_sib]
              ELSE d1
        d3 == [d2 EXCEPT ![index + 1].parent = NONE,
                         ![index + 1].left_sibling = NONE,
                         ![index + 1].right_sibling = NONE]
        u == Unite(e1, d3, h.top_, index)
    IN  IF compare_(old, x) THEN h
        ELSE IF index = h.top_
        THEN [h EXCEPT !.elements_ = e1]
        ELSE [elements_ |-> e1, data_ |-> u.data_, top_ |-> u.top_, id_ |-> h.id_]

\* update(d): the item's new value is x; the locator finds its node.
update(h, x) ==
    LET index == h.id_[Key(x)]
        e1 == [h.elements_ EXCEPT ![At(h.data_, index).item_index + 1] = x]
        d == h.data_
        parent == At(d, index).parent
        left_sib == At(d, index).left_sibling
        right_sib == At(d, index).right_sibling
        d1 == IF left_sib = NONE
              THEN [d EXCEPT ![parent + 1].child = right_sib]
              ELSE [d EXCEPT ![left_sib + 1].right_sibling = right_sib]
        d2 == IF right_sib # NONE
              THEN [d1 EXCEPT ![right_sib + 1].left_sibling = left_sib]
              ELSE d1
        d3 == [d2 EXCEPT ![index + 1].parent = NONE,
                         ![index + 1].left_sibling = NONE,
                         ![index + 1].right_sibling = NONE]
        u == Unite(e1, d3, h.top_, index)
    IN  IF index = h.top_
        THEN [h EXCEPT !.elements_ = e1]
        ELSE [elements_ |-> e1, data_ |-> u.data_, top_ |-> u.top_, id_ |-> h.id_]

\* The first loop without the comparison: the right node of a pair always wins.
RECURSIVE PairingPass_NoCompare(_, _, _, _, _, _)
PairingPass_NoCompare(e, d, index1, prev_pair, new_top, n) ==
    IF index1 # NONE /\ At(d, index1).right_sibling # NONE /\ n <= Len(d)
    THEN LET index2 == At(d, index1).right_sibling
             next_index == At(d, index2).right_sibling
             d1 == [d EXCEPT ![index1 + 1].parent = NONE,
                             ![index1 + 1].left_sibling = NONE,
                             ![index1 + 1].right_sibling = NONE]
             d2 == [d1 EXCEPT ![index2 + 1].parent = NONE,
                              ![index2 + 1].left_sibling = NONE,
                              ![index2 + 1].right_sibling = NONE]
             d3 == merge(d2, index1, index2)
             d4 == [d3 EXCEPT ![index2 + 1].left_sibling = prev_pair]
         IN  PairingPass_NoCompare(e, d4, next_index, index2, index2, n + 1)
    ELSE [data_ |-> d, index1 |-> index1, prev_pair |-> prev_pair,
          new_top |-> new_top, n |-> n]

\* The first loop where the left node of a pair wins a tie.
RECURSIVE PairingPass_TieFirst(_, _, _, _, _, _)
PairingPass_TieFirst(e, d, index1, prev_pair, new_top, n) ==
    IF index1 # NONE /\ At(d, index1).right_sibling # NONE /\ n <= Len(d)
    THEN LET index2 == At(d, index1).right_sibling
             next_index == At(d, index2).right_sibling
             d1 == [d EXCEPT ![index1 + 1].parent = NONE,
                             ![index1 + 1].left_sibling = NONE,
                             ![index1 + 1].right_sibling = NONE]
             d2 == [d1 EXCEPT ![index2 + 1].parent = NONE,
                              ![index2 + 1].left_sibling = NONE,
                              ![index2 + 1].right_sibling = NONE]
             first == ~compare_(At(e, At(d2, index2).item_index),
                                At(e, At(d2, index1).item_index))
             d3 == IF first THEN merge(d2, index2, index1)
                            ELSE merge(d2, index1, index2)
             nt == IF first THEN index1 ELSE index2
             d4 == [d3 EXCEPT ![nt + 1].left_sibling = prev_pair]
         IN  PairingPass_TieFirst(e, d4, next_index, nt, nt, n + 1)
    ELSE [data_ |-> d, index1 |-> index1, prev_pair |-> prev_pair,
          new_top |-> new_top, n |-> n]

\* pop, first loop: pair the children of the old root left to right.  n counts
\* the iterations; a chain of siblings holds at most Len(d) nodes, so the
\* loop is cut there (stuck) should the chain not end.
RECURSIVE PairingPass(_, _, _, _, _, _)
PairingPass(e, d, index1, prev_pair, new_top, n) ==
    IF index1 # NONE /\ At(d, index1).right_sibling # NONE /\ n <= Len(d)
    THEN LET index2 == At(d, index1).right_sibling
             next_index == At(d, index2).right_sibling
             d1 == [d EXCEPT ![index1 + 1].parent = NONE,
                             ![index1 + 1].left_sibling = NONE,
                             ![index1 + 1].right_sibling = NONE]
             d2 == [d1 EXCEPT ![index2 + 1].parent = NONE,
                              ![index2 + 1].left_sibling = NONE,
                              ![index2 + 1].right_sibling = NONE]
             first == compare_(At(e, At(d2, index1).item_index),
                               At(e, At(d2, index2).item_index))
             d3 == IF first THEN merge(d2, index2, index1)
                            ELSE merge(d2, index1, index2)
             nt == IF first THEN index1 ELSE index2
             d4 == [d3 EXCEPT ![nt + 1].left_sibling = prev_pair]
         IN  PairingPass(e, d4, next_index, nt, nt, n + 1)
    ELSE [data_ |-> d, index1 |-> index1, prev_pair |-> prev_pair,
          new_top |-> new_top, n |-> n]

\* The odd last child left with its parent link.
OddChild_KeepsParent(d, index1, prev_pair, new_top) ==
    IF index1 # NONE /\ At(d, index1).right_sibling = NONE
    THEN [data_ |-> [d EXCEPT ![index1 + 1].right_sibling = NONE,
                              ![index1 + 1].left_sibling = prev_pair],
          new_top |-> index1]
    ELSE [data_ |-> d, new_top |-> new_top]

\* pop, between the loops: an odd last child is a pair of its own.
OddChild(d, index1, prev_pair, new_top) ==
    IF index1 # NONE /\ At(d, index1).right_sibling = NONE
    THEN [data_ |-> [d EXCEPT ![index1 + 1].parent = NONE,
                              ![index1 + 1].right_sibling = NONE,
                              ![index1 + 1].left_sibling = prev_pair],
          new_top |-> index1]
    ELSE [data_ |-> d, new_top |-> new_top]

\* The second loop that always keeps the last pair made as the root.
RECURSIVE AccumulatePass_KeepsLast(_, _, _, _)
AccumulatePass_KeepsLast(e, d, new_top, n) ==
    IF new_top # NONE /\ At(d, new_top).left_sibling # NONE /\ n <= Len(d)
    THEN LET merge_pair == At(d, new_top).left_sibling
             next_pair == At(d, merge_pair).left_sibling
             d1 == [d EXCEPT ![new_top + 1].left_sibling = NONE]
             d2 == [d1 EXCEPT ![merge_pair + 1].left_sibling = NONE]
             d3 == merge(d2, merge_pair, new_top)
             d4 == [d3 EXCEPT ![new_top + 1].left_sibling = next_pair]
         IN  AccumulatePass_KeepsLast(e, d4, new_top, n + 1)
    ELSE [data_ |-> d, new_top |-> new_top, n |-> n]

\* The second loop that leaves the scratch link of the root it folds.
RECURSIVE AccumulatePass_KeepsScratch(_, _, _, _)
AccumulatePass_KeepsScratch(e, d, new_top, n) ==
    IF new_top # NONE /\ At(d, new_top).left_sibling # NONE /\ n <= Len(d)
    THEN LET merge_pair == At(d, new_top).left_sibling
             next_pair == At(d, merge_pair).left_sibling
             d2 == [d EXCEPT ![merge_pair + 1].left_sibling = NONE]
             first == compare_(At(e, At(d2, merge_pair).item_index),
                               At(e, At(d2, new_top).item_index))
             d3 == IF first THEN merge(d2, new_top, merge_pair)
                            ELSE merge(d2, merge_pair, new_top)
             nt == IF first THEN merge_pair ELSE new_top
             d4 == [d3 EXCEPT ![nt + 1].left_sibling = next_pair]
         IN  AccumulatePass_KeepsScratch(e, d4, nt, n + 1)
    ELSE [data_ |-> d, new_top |-> new_top, n |-> n]

\* pop, second loop: merge the pairs from the last one made back to the first.
RECURSIVE AccumulatePass(_, _, _, _)
AccumulatePass(e, d, new_top, n) ==
    IF new_top # NONE /\ At(d, new_top).left_sibling # NONE /\ n <= Len(d)
    THEN LET merge_pair == At(d, new_top).left_sibling
             next_pair == At(d, merge_pair).left_sibling
             d1 == [d EXCEPT ![new_top + 1].left_sibling = NONE]
             d2 == [d1 EXCEPT ![merge_pair + 1].left_sibling = NONE]
             first == compare_(At(e, At(d2, merge_pair).item_index),
                               At(e, At(d2, new_top).item_index))
             d3 == IF first THEN merge(d2, new_top, merge_pair)
                            ELSE merge(d2, merge_pair, new_top)
             nt == IF first THEN merge_pair ELSE new_top
             d4 == [d3 EXCEPT ![nt + 1].left_sibling = next_pair]
         IN  AccumulatePass(e, d4, nt, n + 1)
    ELSE [data_ |-> d, new_top |-> new_top, n |-> n]

\* The end of pop without elements_.pop_back().
Compact_NoPopBack(e, d, root, idm, new_top) ==
    LET last == At(e, Len(e) - 1)
        idm1 == IF Key(last) \in DOMAIN idm THEN idm ELSE MapSet(idm, Key(last), 0)
        index == idm1[Key(last)]
        e1 == [e EXCEPT ![At(d, root).item_index + 1] = last]
        d1 == [d EXCEPT ![index + 1].item_index = At(d, root).item_index]
        d2 == [d1 EXCEPT ![root + 1] = [item_index |-> NONE, parent |-> NONE,
                                        child |-> NONE, right_sibling |-> NONE,
                                        left_sibling |-> NONE]]
    IN  [elements_ |-> e1, data_ |-> d2, top_ |-> new_top, id_ |-> idm1]

\* The end of pop that moves the last value and leaves the item_index of its
\* node as it was.
Compact_StaleItemIndex(e, d, root, idm, new_top) ==
    LET last == At(e, Len(e) - 1)
        e1 == [e EXCEPT ![At(d, root).item_index + 1] = last]
        d2 == [d EXCEPT ![root + 1] = [item_index |-> NONE, parent |-> NONE,
                                       child |-> NONE, right_sibling |-> NONE,
                                       left_sibling |-> NONE]]
    IN  [elements_ |-> PopBack(e1), data_ |-> d2, top_ |-> new_top, id_ |-> idm]

\* The end of pop that drops the last value instead of moving it into the slot
\* of the old top.
Compact_DropsLast(e, d, root, idm, new_top) ==
    LET last == At(e, Len(e) - 1)
        idm1 == IF Key(last) \in DOMAIN idm THEN idm ELSE MapSet(idm, Key(last), 0)
        index == idm1[Key(last)]
        d1 == [d EXCEPT ![index + 1].item_index = At(d, root).item_index]
        d2 == [d1 EXCEPT ![root + 1] = [item_index |-> NONE, parent |-> NONE,
                                       child |-> NONE, right_sibling |-> NONE,
                                       left_sibling |-> NONE]]
    IN  [elements_ |-> PopBack(e), data_ |-> d2, top_ |-> new_top, id_ |-> idm1]

\* The end of pop that closes the slot of the old top by shifting every later
\* value one slot down.
Compact_ShiftDown(e, d, root, idm, new_top) ==
    LET s == At(d, root).item_index
        e1 == SubSeq(e, 1, s) \o SubSeq(e, s + 2, Len(e))
        d1 == [n \in 1 .. Len(d) |->
                 IF d[n].item_index > s
                 THEN [d[n] EXCEPT !.item_index = d[n].item_index - 1]
                 ELSE d[n]]
        d2 == [d1 EXCEPT ![root + 1] = [item_index |-> NONE, parent |-> NONE,
                                       child |-> NONE, right_sibling |-> NONE,
                                       left_sibling |-> NONE]]
    IN  [elements_ |-> e1, data_ |-> d2, top_ |-> new_top, id_ |-> idm]

\* The end of pop without top_ = new_top_.
Compact_KeepsTop(e, d, root, idm, new_top) ==
    LET last == At(e, Len(e) - 1)
        idm1 == IF Key(last) \in DOMAIN idm THEN idm ELSE MapSet(idm, Key(last), 0)
        index == idm1[Key(last)]
        e1 == [e EXCEPT ![At(d, root).item_index + 1] = last]
        d1 == [d EXCEPT ![index + 1].item_index = At(d, root).item_index]
        d2 == [d1 EXCEPT ![root + 1] = [item_index |-> NONE, parent |-> NONE,
                                       child |-> NONE, right_sibling |-> NONE,
                                       left_sibling |-> NONE]]
    IN  [elements_ |-> PopBack(e1), data_ |-> d2, top_ |-> root, id_ |-> idm1]

\* pop, the end: move the last value into the slot of the old top, point the
\* moved item's node at it, invalidate the old top's node, shrink elements_.
Compact(e, d, root, idm, new_top) ==
    LET last == At(e, Len(e) - 1)
        idm1 == IF Key(last) \in DOMAIN idm THEN idm ELSE MapSet(idm, Key(last), 0)
        index == idm1[Key(last)]
        e1 == [e EXCEPT ![At(d, root).item_index + 1] = last]
        d1 == [d EXCEPT ![index + 1].item_index = At(d, root).item_index]
        d2 == [d1 EXCEPT ![root + 1] = [item_index |-> NONE, parent |-> NONE,
                                       child |-> NONE, right_sibling |-> NONE,
                                       left_sibling |-> NONE]]
    IN  [elements_ |-> PopBack(e1), data_ |-> d2, top_ |-> new_top, id_ |-> idm1]

\* pop()
pop(h) ==
    IF h.top_ = NONE THEN h
    ELSE LET p1 == PairingPass(h.elements_, h.data_, At(h.data_, h.top_).child,
                               NONE, NONE, 0)
             p2 == OddChild(p1.data_, p1.index1, p1.prev_pair, p1.new_top)
             p3 == AccumulatePass(h.elements_, p2.data_, p2.new_top, 0)
         IN  Compact(h.elements_, p3.data_, h.top_, h.id_, p3.new_top)

\* The calls of merge an operation makes, each with data_ as the call finds
\* it: [d, x, y] is merge(x, y) called on d.

\* The one call at the end of push and of update (lines 328-336, 375-383).
UniteCalls(e, d, root, index) ==
    IF compare_(At(e, At(d, index).item_index), At(e, At(d, root).item_index))
    THEN <<[d |-> d, x |-> root, y |-> index]>>
    ELSE <<[d |-> d, x |-> index, y |-> root]>>

\* The calls of push(d).
pushCalls(h, x) ==
    LET e1 == Append(h.elements_, x)
        d1 == Append(h.data_, NewNode(Len(e1) - 1))
    IN  IF h.top_ = NONE THEN <<>>
        ELSE UniteCalls(e1, d1, h.top_, Len(d1) - 1)

\* The calls of update(d).
updateCalls(h, x) ==
    LET index == h.id_[Key(x)]
        e1 == [h.elements_ EXCEPT ![At(h.data_, index).item_index + 1] = x]
        d == h.data_
        parent == At(d, index).parent
        left_sib == At(d, index).left_sibling
        right_sib == At(d, index).right_sibling
        d1 == IF left_sib = NONE
              THEN [d EXCEPT ![parent + 1].child = right_sib]
              ELSE [d EXCEPT ![left_sib + 1].right_sibling = right_sib]
        d2 == IF right_sib # NONE
              THEN [d1 EXCEPT ![right_sib + 1].left_sibling = left_sib]
              ELSE d1
        d3 == [d2 EXCEPT ![index + 1].parent = NONE,
                         ![index + 1].left_sibling = NONE,
                         ![index + 1].right_sibling = NONE]
    IN  IF index = h.top_ THEN <<>> ELSE UniteCalls(e1, d3, h.top_, index)

\* The calls of the first loop of pop.
RECURSIVE PairingPassCalls(_, _, _, _, _)
PairingPassCalls(e, d, index1, prev_pair, n) ==
    IF index1 # NONE /\ At(d, index1).right_sibling # NONE /\ n <= Len(d)
    THEN LET index2 == At(d, index1).right_sibling
             next_index == At(d, index2).right_sibling
             d1 == [d EXCEPT ![index1 + 1].parent = NONE,
                             ![index1 + 1].left_sibling = NONE,
                             ![index1 + 1].right_sibling = NONE]
             d2 == [d1 EXCEPT ![index2 + 1].parent = NONE,
                              ![index2 + 1].left_sibling = NONE,
                              ![index2 + 1].right_sibling = NONE]
             first == compare_(At(e, At(d2, index1).item_index),
                               At(e, At(d2, index2).item_index))
             call == IF first THEN [d |-> d2, x |-> index2, y |-> index1]
                              ELSE [d |-> d2, x |-> index1, y |-> index2]
             nt == call.y
             d4 == [merge(d2, call.x, call.y) EXCEPT ![nt + 1].left_sibling = prev_pair]
         IN  <<call>> \o PairingPassCalls(e, d4, next_index, nt, n + 1)
    ELSE <<>>

\* The calls of the second loop of pop.
RECURSIVE AccumulatePassCalls(_, _, _, _)
AccumulatePassCalls(e, d, new_top, n) ==
    IF new_top # NONE /\ At(d, new_top).left_sibling # NONE /\ n <= Len(d)
    THEN LET merge_pair == At(d, new_top).left_sibling
             next_pair == At(d, merge_pair).left_sibling
             d1 == [d EXCEPT ![new_top + 1].left_sibling = NONE]
             d2 == [d1 EXCEPT ![merge_pair + 1].left_sibling = NONE]
             first == compare_(At(e, At(d2, merge_pair).item_index),
                               At(e, At(d2, new_top).item_index))
             call == IF first THEN [d |-> d2, x |-> new_top, y |-> merge_pair]
                              ELSE [d |-> d2, x |-> merge_pair, y |-> new_top]
             nt == call.y
             d4 == [merge(d2, call.x, call.y) EXCEPT ![nt + 1].left_sibling = next_pair]
         IN  <<call>> \o AccumulatePassCalls(e, d4, nt, n + 1)
    ELSE <<>>

\* The calls of pop().
popCalls(h) ==
    IF h.top_ = NONE THEN <<>>
    ELSE LET c == At(h.data_, h.top_).child
             p1 == PairingPass(h.elements_, h.data_, c, NONE, NONE, 0)
             p2 == OddChild(p1.data_, p1.index1, p1.prev_pair, p1.new_top)
         IN  PairingPassCalls(h.elements_, h.data_, c, NONE, 0)
             \o AccumulatePassCalls(h.elements_, p2.data_, p2.new_top, 0)

\* The two loops of pop() on a heap with a top: the iterations of the first
\* (pairs), index1 as the first loop leaves it (odd: the odd last child, or
\* NONE), the iterations of the second (folds), and whether each loop was
\* left by its own condition (ended) rather than cut.
popLoops(h) ==
    LET p1 == PairingPass(h.elements_, h.data_, At(h.data_, h.top_).child,
                          NONE, NONE, 0)
        p2 == OddChild(p1.data_, p1.index1, p1.prev_pair, p1.new_top)
        p3 == AccumulatePass(h.elements_, p2.data_, p2.new_top, 0)
    IN  [pairs |-> p1.n,
         odd   |-> p1.index1,
         folds |-> p3.n,
         ended |-> /\ (p1.index1 = NONE \/ At(p1.data_, p1.index1).right_sibling = NONE)
                   /\ (p3.new_top = NONE \/ At(p3.data_, p3.new_top).left_sibling = NONE)]

\* top()
top(h) == At(h.elements_, At(h.data_, h.top_).item_index)

\* size(), empty(): the same in the three classes
size(h) == Len(h.elements_)
empty(h) == Len(h.elements_) = 0

-----------------------------------------------------------------------------
\* pairing_heap: h is the heap [elements_, data_, top_, reversemap_].

\* pairing_heap::merge(index1, index2)
ph_merge(d, index1, index2) ==
    LET d1 == [d EXCEPT ![index1 + 1].parent = index2]
        d2 == [d1 EXCEPT ![index1 + 1].right_sibling = At(d1, index2).child]
        d3 == IF At(d2, index2).child # NONE
              THEN [d2 EXCEPT ![At(d2, index2).child + 1].left_sibling = index1]
              ELSE d2
    IN  [d3 EXCEPT ![index2 + 1].child = index1]

\* pairing_heap::push(d)
ph_push(h, x) ==
    LET e1 == Append(h.elements_, x)
        obj == NewNode(Len(e1) - 1)
        d1 == Append(h.data_, obj)
        index == Len(d1) - 1
        r1 == Append(h.reversemap_, index)
        u == IF h.top_ = NONE
             THEN [data_ |-> d1, top_ |-> index]
             ELSE IF compare_(At(e1, At(d1, index).item_index),
                              At(e1, At(d1, h.top_).item_index))
                  THEN [data_ |-> ph_merge(d1, h.top_, index), top_ |-> index]
                  ELSE [data_ |-> ph_merge(d1, index, h.top_), top_ |-> h.top_]
    IN  [elements_ |-> e1, data_ |-> u.data_, top_ |-> u.top_, reversemap_ |-> r1]

\* pairing_heap::push(d) left by std::bad_alloc at growth step k.
ph_push_bad_alloc(h, x, k) ==
    LET e1 == Append(h.elements_, x)
        obj == NewNode(Len(e1) - 1)
        d1 == Append(h.data_, obj)
    IN  CASE k = "elements_" -> h
          [] k = "data_" -> [h EXCEPT !.elements_ = e1]
          [] k = "locator" -> [h EXCEPT !.elements_ = e1, !.data_ = d1]

\* pairing_heap::pop, first loop
RECURSIVE ph_PairingPass(_, _, _, _, _, _)
ph_PairingPass(e, d, index1, prev_pair, new_top, n) ==
    IF index1 # NONE /\ At(d, index1).right_sibling # NONE /\ n <= Len(d)
    THEN LET index2 == At(d, index1).right_sibling
             next_index == At(d, index2).right_sibling
             d1 == [d EXCEPT ![index1 + 1].parent = NONE,
                             ![index1 + 1].left_sibling = NONE,
                             ![index1 + 1].right_sibling = NONE]
             d2 == [d1 EXCEPT ![index2 + 1].parent = NONE,
                              ![index2 + 1].left_sibling = NONE,
                              ![index2 + 1].right_sibling = NONE]
             first == compare_(At(e, At(d2, index1).item_index),
                               At(e, At(d2, index2).item_index))
             d3 == IF first THEN ph_merge(d2, index2, index1)
                            ELSE ph_merge(d2, index1, index2)
             nt == IF first THEN index1 ELSE index2
             d4 == [d3 EXCEPT ![nt + 1].left_sibling = prev_pair]
         IN  ph_PairingPass(e, d4, next_index, nt, nt, n + 1)
    ELSE [data_ |-> d, index1 |-> index1, prev_pair |-> prev_pair,
          new_top |-> new_top, n |-> n]

\* pairing_heap::pop, the odd last child
ph_OddChild(d, index1, prev_pair, new_top) ==
    IF index1 # NONE /\ At(d, index1).right_sibling = NONE
    THEN [data_ |-> [d EXCEPT ![index1 + 1].parent = NONE,
                              ![index1 + 1].right_sibling = NONE,
                              ![index1 + 1].left_sibling = prev_pair],
          new_top |-> index1]
    ELSE [data_ |-> d, new_top |-> new_top]

\* The second loop without the comparison: the later pair always wins.
RECURSIVE ph_AccumulatePass_NoCompare(_, _, _, _)
ph_AccumulatePass_NoCompare(e, d, new_top, n) ==
    IF new_top # NONE /\ At(d, new_top).left_sibling # NONE /\ n <= Len(d)
    THEN LET merge_pair == At(d, new_top).left_sibling
             next_pair == At(d, merge_pair).left_sibling
             d1 == [d EXCEPT ![new_top + 1].left_sibling = NONE]
             d2 == [d1 EXCEPT ![merge_pair + 1].left_sibling = NONE]
             d3 == ph_merge(d2, merge_pair, new_top)
             d4 == [d3 EXCEPT ![new_top + 1].left_sibling = next_pair]
         IN  ph_AccumulatePass_NoCompare(e, d4, new_top, n + 1)
    ELSE [data_ |-> d, new_top |-> new_top, n |-> n]

\* pairing_heap::pop, second loop
RECURSIVE ph_AccumulatePass(_, _, _, _)
ph_AccumulatePass(e, d, new_top, n) ==
    IF new_top # NONE /\ At(d, new_top).left_sibling # NONE /\ n <= Len(d)
    THEN LET merge_pair == At(d, new_top).left_sibling
             next_pair == At(d, merge_pair).left_sibling
             d1 == [d EXCEPT ![new_top + 1].left_sibling = NONE]
             d2 == [d1 EXCEPT ![merge_pair + 1].left_sibling = NONE]
             first == compare_(At(e, At(d2, merge_pair).item_index),
                               At(e, At(d2, new_top).item_index))
             d3 == IF first THEN ph_merge(d2, new_top, merge_pair)
                            ELSE ph_merge(d2, merge_pair, new_top)
             nt == IF first THEN merge_pair ELSE new_top
             d4 == [d3 EXCEPT ![nt + 1].left_sibling = next_pair]
         IN  ph_AccumulatePass(e, d4, nt, n + 1)
    ELSE [data_ |-> d, new_top |-> new_top, n |-> n]

\* The end of pairing_heap::pop without the reversemap_ entry of the moved
\* value.
ph_Compact_StaleReversemap(e, d, root, rm, new_top) ==
    LET index == At(rm, Len(rm) - 1)
        e1 == [e EXCEPT ![At(d, root).item_index + 1] = At(e, Len(e) - 1)]
        d1 == [d EXCEPT ![index + 1].item_index = At(d, root).item_index]
        d2 == [d1 EXCEPT ![root + 1] = [item_index |-> NONE, parent |-> NONE,
                                       child |-> NONE, right_sibling |-> NONE,
                                       left_sibling |-> NONE]]
    IN  [elements_ |-> PopBack(e1), data_ |-> d2, top_ |-> new_top,
         reversemap_ |-> PopBack(rm)]

\* pairing_heap::pop, the end: reversemap_ names the node of the last value.
ph_Compact(e, d, root, rm, new_top) ==
    LET index == At(rm, Len(rm) - 1)
        e1 == [e EXCEPT ![At(d, root).item_index + 1] = At(e, Len(e) - 1)]
        r1 == [rm EXCEPT ![At(d, root).item_index + 1] = index]
        d1 == [d EXCEPT ![index + 1].item_index = At(d, root).item_index]
        d2 == [d1 EXCEPT ![root + 1] = [item_index |-> NONE, parent |-> NONE,
                                       child |-> NONE, right_sibling |-> NONE,
                                       left_sibling |-> NONE]]
    IN  [elements_ |-> PopBack(e1), data_ |-> d2, top_ |-> new_top,
         reversemap_ |-> PopBack(r1)]

\* pairing_heap::pop()
ph_pop(h) ==
    IF h.top_ = NONE THEN h
    ELSE LET p1 == ph_PairingPass(h.elements_, h.data_, At(h.data_, h.top_).child,
                                  NONE, NONE, 0)
             p2 == ph_OddChild(p1.data_, p1.index1, p1.prev_pair, p1.new_top)
             p3 == ph_AccumulatePass(h.elements_, p2.data_, p2.new_top, 0)
         IN  ph_Compact(h.elements_, p3.data_, h.top_, h.reversemap_, p3.new_top)

\* The two loops of pairing_heap::pop() on a heap with a top, as popLoops.
ph_popLoops(h) ==
    LET p1 == ph_PairingPass(h.elements_, h.data_, At(h.data_, h.top_).child,
                             NONE, NONE, 0)
        p2 == ph_OddChild(p1.data_, p1.index1, p1.prev_pair, p1.new_top)
        p3 == ph_AccumulatePass(h.elements_, p2.data_, p2.new_top, 0)
    IN  [pairs |-> p1.n,
         odd   |-> p1.index1,
         folds |-> p3.n,
         ended |-> /\ (p1.index1 = NONE \/ At(p1.data_, p1.index1).right_sibling = NONE)
                   /\ (p3.new_top = NONE \/ At(p3.data_, p3.new_top).left_sibling = NONE)]

\* pairing_heap::top()
ph_top(h) == At(h.elements_, At(h.data_, h.top_).item_index)

-----------------------------------------------------------------------------
\* The state machine: one action per public member function called.

\* The heap object, as the operators above take it.
Heap == [elements_ |-> elements_, data_ |-> data_, top_ |-> top_, id_ |-> id_]
PhHeap == [elements_ |-> elements_, data_ |-> data_, top_ |-> top_,
           reversemap_ |-> reversemap_]

\* The least of a non-empty set of numbers.
Min(S) == CHOOSE a \in S : \A b \in S : a <= b

\* The values the callers gave the stored items (t is track), in the order
\* of their arena indices, which is the order of their pushes.
RECURSIVE ValsOf(_)
ValsOf(t) ==
    IF DOMAIN t = {} THEN <<>>
    ELSE LET k == Min(DOMAIN t)
         IN  <<t[k].cur>> \o ValsOf([j \in (DOMAIN t) \ {k} |-> t[j]])

\* The identities of the items stored now.
LiveIds == {track[n].id : n \in DOMAIN track}

\* All items a caller can hand in.
Items == [id : Ids, val : env.vals]

\* The identity of the next item pushed: identities are opaque to the heap,
\* so the callers use the smallest one that is free.
FreshId == CHOOSE i \in Ids \ LiveIds : \A j \in Ids \ LiveIds : i <= j

\* No call has thrown, broken a precondition or returned a value.
Normal == [thrown |-> "none", violated |-> "none", returned |-> <<>>]

\* The callers are followed up to their first call that throws or breaks a
\* precondition: the heap is used while no call has done so.
InUse == outcome.thrown = "none" /\ outcome.violated = "none"

\* The constructors taking a comparison leave an empty heap with top_ = -1.
Constructed ==
    /\ elements_ = <<>>
    /\ data_ = <<>>
    /\ top_ = NONE
    /\ id_ = EmptyMap
    /\ reversemap_ = <<>>
    /\ ub = FALSE
    /\ track = EmptyMap
    /\ npush = 0
    /\ npop = 0
    /\ nemptypop = 0
    /\ misuse = FALSE
    /\ updated = FALSE
    /\ snap = <<>>
    /\ run = <<>>
    /\ outcome = Normal

\* What top_ may hold when no constructor has written it: size_type(-1), an
\* index of a node pushed later, or anything else (a number past every node).
Indeterminate == {NONE} \cup (0 .. MaxPush)

\* mutable_pairing_heap_impl () = default, and mutable_pairing_heap() :
\* impl(): the vectors are empty and top_, which has no initializer, is
\* zero where the object is zero-initialized first (impl()) and holds an
\* indeterminate value otherwise.
DefaultConstructed ==
    /\ elements_ = <<>>
    /\ data_ = <<>>
    /\ top_ \in Indeterminate
    /\ id_ = EmptyMap
    /\ reversemap_ = <<>>
    /\ ub = FALSE
    /\ track = EmptyMap
    /\ npush = 0
    /\ npop = 0
    /\ nemptypop = 0
    /\ misuse = FALSE
    /\ updated = FALSE
    /\ snap = <<>>
    /\ run = <<>>
    /\ outcome = Normal

\* Any of the three heaps; its callers push freely and only decrease keys.
Init ==
    /\ variant \in Variants
    /\ env = [vals |-> Values, script |-> <<>>, contract |-> TRUE]
    /\ Constructed

\* mutable_pairing_heap::push(d), both forms: impl.push(d).  The caller pushes
\* an item that is not in the heap.
PushCall ==
    /\ variant \in {"ext", "int"}
    /\ ~ub
    /\ InUse
    /\ npush < MaxPush
    /\ \E v \in env.vals :
         /\ env.script # <<>> => (npush < Len(env.script) /\ v = env.script[npush + 1])
         /\ LET x == [id |-> FreshId, val |-> v]
                h == push(Heap, x)
                t == MapSet(track, Len(data_), [id |-> x.id, cur |-> x.val])
            IN  /\ elements_' = h.elements_
                /\ data_' = h.data_
                /\ top_' = h.top_
                /\ id_' = h.id_
                /\ track' = t
                /\ snap' = ValsOf(t)
    /\ npush' = npush + 1
    /\ run' = <<>>
    /\ UNCHANGED <<variant, env, outcome, reversemap_, ub, npop, nemptypop, misuse, updated>>

\* mutable_pairing_heap::update(d), both forms: impl.update(d).  The caller
\* updates an item that is in the heap; the new value is any value.
UpdateCall ==
    /\ variant \in {"ext", "int"}
    /\ ~ub
    /\ InUse
    /\ \E n \in DOMAIN track, v \in env.vals :
         LET x == [id |-> track[n].id, val |-> v]
             h == update(Heap, x)
             t == [track EXCEPT ![n].cur = v]
         IN  /\ env.contract => ~(track[n].cur < v)
             /\ elements_' = h.elements_
             /\ data_' = h.data_
             /\ top_' = h.top_
             /\ id_' = h.id_
             /\ track' = t
             /\ snap' = ValsOf(t)
             /\ misuse' = (misuse \/ track[n].cur < v)
    /\ updated' = TRUE
    /\ run' = <<>>
    /\ UNCHANGED <<variant, env, outcome, reversemap_, ub, npush, npop, nemptypop>>

\* mutable_pairing_heap<T, Compare, Item_Map>::pop(): impl.pop().
PopCall ==
    /\ variant = "ext"
    /\ ~ub
    /\ InUse
    /\ LET h == pop(Heap)
       IN  /\ elements_' = h.elements_
           /\ data_' = h.data_
           /\ top_' = h.top_
           /\ id_' = h.id_
    /\ \/ /\ track # EmptyMap
          /\ run' = Append(run, top(Heap).val)
          /\ track' = MapErase(track, top_)
          /\ npop' = npop + 1
          /\ UNCHANGED nemptypop
       \/ /\ track = EmptyMap
          /\ nemptypop < MaxEmptyPop
          /\ nemptypop' = nemptypop + 1
          /\ UNCHANGED <<run, track, npop>>
    /\ UNCHANGED <<variant, env, outcome, reversemap_, ub, npush, misuse, updated, snap>>

\* The internal-map pop without map_.erase(top_element).
IntPopCall_NoErase ==
    /\ variant = "int"
    /\ ~ub
    /\ InUse
    /\ track # EmptyMap
    /\ LET top_element == top(Heap)
           h == pop(Heap)
       IN  /\ elements_' = h.elements_
           /\ data_' = h.data_
           /\ top_' = h.top_
           /\ id_' = h.id_
           /\ run' = Append(run, top_element.val)
    /\ track' = MapErase(track, top_)
    /\ npop' = npop + 1
    /\ UNCHANGED <<variant, env, outcome, reversemap_, npush, misuse, updated, snap,
                   nemptypop, ub>>

\* mutable_pairing_heap<T, Compare, default_t>::pop(): top_element =
\* impl.top(); impl.pop(); map_.erase(top_element).  On an empty heap top_ is
\* size_type(-1) and impl.top() reads data_[top_] outside data_: whatever it
\* reads becomes top_element (any item g), and its key is erased from map_.
IntPopCall ==
    /\ variant = "int"
    /\ ~ub
    /\ InUse
    /\ \/ /\ track # EmptyMap
          /\ LET top_element == top(Heap)
                 h == pop(Heap)
             IN  /\ elements_' = h.elements_
                 /\ data_' = h.data_
                 /\ top_' = h.top_
                 /\ id_' = MapErase(h.id_, Key(top_element))
                 /\ run' = Append(run, top_element.val)
          /\ track' = MapErase(track, top_)
          /\ npop' = npop + 1
          /\ UNCHANGED <<nemptypop, ub>>
       \/ /\ track = EmptyMap
          /\ nemptypop < MaxEmptyPop
          /\ \E g \in Items :
               LET h == pop(Heap)
               IN  /\ elements_' = h.elements_
                   /\ data_' = h.data_
                   /\ top_' = h.top_
                   /\ id_' = MapErase(h.id_, Key(g))
          /\ ub' = TRUE
          /\ nemptypop' = nemptypop + 1
          /\ UNCHANGED <<run, track, npop>>
    /\ UNCHANGED <<variant, env, outcome, reversemap_, npush, misuse, updated, snap>>

\* pairing_heap::push(d): the items are plain values (all of identity 0).
PhPushCall ==
    /\ variant = "simple"
    /\ ~ub
    /\ InUse
    /\ npush < MaxPush
    /\ \E v \in env.vals :
         /\ env.script # <<>> => (npush < Len(env.script) /\ v = env.script[npush + 1])
         /\ LET h == ph_push(PhHeap, [id |-> 0, val |-> v])
                t == MapSet(track, Len(data_), [id |-> 0, cur |-> v])
            IN  /\ elements_' = h.elements_
                /\ data_' = h.data_
                /\ top_' = h.top_
                /\ reversemap_' = h.reversemap_
                /\ track' = t
                /\ snap' = ValsOf(t)
    /\ npush' = npush + 1
    /\ run' = <<>>
    /\ UNCHANGED <<variant, env, outcome, id_, ub, npop, nemptypop, misuse, updated>>

\* pairing_heap::pop()
PhPopCall ==
    /\ variant = "simple"
    /\ ~ub
    /\ InUse
    /\ LET h == ph_pop(PhHeap)
       IN  /\ elements_' = h.elements_
           /\ data_' = h.data_
           /\ top_' = h.top_
           /\ reversemap_' = h.reversemap_
    /\ \/ /\ track # EmptyMap
          /\ run' = Append(run, ph_top(PhHeap).val)
          /\ track' = MapErase(track, top_)
          /\ npop' = npop + 1
          /\ UNCHANGED nemptypop
       \/ /\ track = EmptyMap
          /\ nemptypop < MaxEmptyPop
          /\ nemptypop' = nemptypop + 1
          /\ UNCHANGED <<run, track, npop>>
    /\ UNCHANGED <<variant, env, outcome, id_, ub, npush, misuse, updated, snap>>

\* mutable_pairing_heap::push(d) when a growth step runs out of memory: the
\* call leaves with std::bad_alloc from that step.
PushThrows ==
    /\ variant \in {"ext", "int"}
    /\ ~ub
    /\ InUse
    /\ npush < MaxPush
    /\ \E v \in env.vals, k \in GrowthSteps :
         /\ env.script # <<>> => (npush < Len(env.script) /\ v = env.script[npush + 1])
         /\ LET h == push_bad_alloc(Heap, [id |-> FreshId, val |-> v], k)
            IN  /\ elements_' = h.elements_
                /\ data_' = h.data_
                /\ top_' = h.top_
                /\ id_' = h.id_
    /\ outcome' = [outcome EXCEPT !.thrown = "bad_alloc"]
    /\ UNCHANGED <<variant, env, reversemap_, ub, hist>>

\* pairing_heap::push(d) when a growth step runs out of memory.
PhPushThrows ==
    /\ variant = "simple"
    /\ ~ub
    /\ InUse
    /\ npush < MaxPush
    /\ \E v \in env.vals, k \in GrowthSteps :
         /\ env.script # <<>> => (npush < Len(env.script) /\ v = env.script[npush + 1])
         /\ LET h == ph_push_bad_alloc(PhHeap, [id |-> 0, val |-> v], k)
            IN  /\ elements_' = h.elements_
                /\ data_' = h.data_
                /\ top_' = h.top_
                /\ reversemap_' = h.reversemap_
    /\ outcome' = [outcome EXCEPT !.thrown = "bad_alloc"]
    /\ UNCHANGED <<variant, env, id_, ub, hist>>

\* top() of the three classes: elements_[data_[top_].item_index], with no
\* test for an empty heap.  On an empty heap top_ is size_type(-1): the read
\* of data_[top_] is outside data_, and whatever lies there is returned (any
\* item g).
TopCall ==
    /\ ~ub
    /\ InUse
    /\ \/ /\ ~empty(Heap)
          /\ LET t == IF variant = "simple" THEN ph_top(PhHeap) ELSE top(Heap)
             IN  outcome' = [outcome EXCEPT !.returned = <<t>>]
          /\ UNCHANGED ub
       \/ /\ empty(Heap)
          /\ \E g \in Items :
               outcome' = [thrown |-> "none", violated |-> "top", returned |-> <<g>>]
          /\ ub' = TRUE
    /\ UNCHANGED <<variant, env, elements_, data_, top_, id_, reversemap_, hist>>

\* mutable_pairing_heap::update(d) for an item that is not stored.  index =
\* id_(d) is what the locator gives for it: the internal map makes an entry of
\* value 0 for a missing key; the external map gives what the caller's slot
\* holds, the stale index of the extracted node or, for an item never pushed,
\* any number (slot; Len(data_) stands for the numbers outside data_).  With
\* index or data_[index].item_index outside its vector the write of line 348
\* is outside elements_ or the read outside data_; otherwise update runs on
\* the node at index.
UntrackedUpdateCall ==
    /\ variant \in {"ext", "int"}
    /\ ~ub
    /\ InUse
    /\ \E i \in Ids \ LiveIds, v \in env.vals, slot \in 0 .. Len(data_) :
         LET x == [id |-> i, val |-> v]
             index == IF i \in DOMAIN id_ THEN id_[i]
                      ELSE IF variant = "int" THEN 0 ELSE slot
             idm == MapSet(id_, i, index)
             inside == /\ index \in 0 .. Len(data_) - 1
                       /\ At(data_, index).item_index \in 0 .. Len(elements_) - 1
             h == update([Heap EXCEPT !.id_ = idm], x)
         IN  /\ (i \in DOMAIN id_ \/ variant = "int") => slot = 0
             /\ IF inside
                THEN /\ elements_' = h.elements_
                     /\ data_' = h.data_
                     /\ top_' = h.top_
                     /\ id_' = h.id_
                     /\ UNCHANGED ub
                ELSE /\ id_' = IF variant = "int" THEN idm ELSE id_
                     /\ ub' = TRUE
                     /\ UNCHANGED <<elements_, data_, top_>>
    /\ outcome' = [outcome EXCEPT !.violated = "update"]
    /\ UNCHANGED <<variant, env, reversemap_, hist>>

\* mutable_pairing_heap<T, Compare, default_t>::push(d) with plain values as
\* items: map_ is keyed by the value itself, and the caller may push a value
\* that is stored already.
PushValueCall ==
    /\ variant = "int"
    /\ ~ub
    /\ InUse
    /\ npush < MaxPush
    /\ \E v \in env.vals :
         LET x == [id |-> v, val |-> v]
             h == push(Heap, x)
             t == MapSet(track, Len(data_), [id |-> v, cur |-> v])
         IN  /\ elements_' = h.elements_
             /\ data_' = h.data_
             /\ top_' = h.top_
             /\ id_' = h.id_
             /\ track' = t
             /\ snap' = ValsOf(t)
    /\ npush' = npush + 1
    /\ run' = <<>>
    /\ UNCHANGED <<variant, env, outcome, reversemap_, ub, npop, nemptypop, misuse, updated>>

\* The nodes whose value slot a pop of the internal-map heap reads: the top
\* (impl.top()) and, when there are two or more, the children of the top
\* (the comparisons of the two loops).
RECURSIVE SiblingsFrom(_, _)
SiblingsFrom(c, k) ==
    IF c = NONE \/ k = 0 THEN {}
    ELSE {c} \cup SiblingsFrom(At(data_, c).right_sibling, k - 1)

PopReads ==
    LET cs == SiblingsFrom(At(data_, top_).child, Len(data_))
    IN  {top_} \cup (IF Cardinality(cs) >= 2 THEN cs ELSE {})

\* mutable_pairing_heap<T, Compare, default_t>::pop() on a non-empty heap of
\* plain values.  A node read whose item_index is not a slot of elements_
\* makes the read one outside elements_.
PopValueCall ==
    /\ variant = "int"
    /\ ~ub
    /\ InUse
    /\ top_ # NONE
    /\ \/ /\ \A n \in PopReads : At(data_, n).item_index \in 0 .. Len(elements_) - 1
          /\ LET top_element == top(Heap)
                 h == pop(Heap)
             IN  /\ elements_' = h.elements_
                 /\ data_' = h.data_
                 /\ top_' = h.top_
                 /\ id_' = MapErase(h.id_, Key(top_element))
                 /\ run' = Append(run, top_element.val)
          /\ track' = MapErase(track, top_)
          /\ npop' = npop + 1
          /\ UNCHANGED ub
       \/ /\ \E n \in PopReads : At(data_, n).item_index \notin 0 .. Len(elements_) - 1
          /\ ub' = TRUE
          /\ UNCHANGED <<elements_, data_, top_, id_, run, track, npop>>
    /\ UNCHANGED <<variant, env, outcome, reversemap_, npush, nemptypop, misuse, updated, snap>>

\* push(d) on a default-constructed heap, followed up to the first pop that
\* finds a top.  With top_ neither size_type(-1) nor the index of a node
\* (the new one included), line 328 reads data_[top_] outside data_, after
\* the three growth steps.
ImplPushCall ==
    /\ variant = "impl"
    /\ ~ub
    /\ InUse
    /\ npush < MaxPush
    /\ npop = 0
    /\ \E v \in env.vals :
         LET x == [id |-> FreshId, val |-> v]
             t == MapSet(track, Len(data_), [id |-> x.id, cur |-> x.val])
         IN  IF top_ = NONE \/ top_ \in 0 .. Len(data_)
             THEN LET h == push(Heap, x)
                  IN  /\ elements_' = h.elements_
                      /\ data_' = h.data_
                      /\ top_' = h.top_
                      /\ id_' = h.id_
                      /\ track' = t
                      /\ snap' = ValsOf(t)
                      /\ npush' = npush + 1
                      /\ UNCHANGED ub
             ELSE /\ elements_' = Append(elements_, x)
                  /\ data_' = Append(data_, NewNode(Len(elements_)))
                  /\ id_' = MapSet(id_, Key(x), Len(data_))
                  /\ ub' = TRUE
                  /\ UNCHANGED <<top_, track, snap, npush>>
    /\ run' = <<>>
    /\ UNCHANGED <<variant, env, outcome, reversemap_, npop, nemptypop, misuse, updated>>

\* pop() on a default-constructed heap, the first that finds a top.  With
\* top_ = size_type(-1) it returns at once; with no node pushed yet, line 399
\* reads data_[top_] outside data_; otherwise it runs, and returns if its two
\* loops end (a call whose loop does not end has no state after it).
ImplPopCall ==
    /\ variant = "impl"
    /\ ~ub
    /\ InUse
    /\ npop = 0
    /\ \/ /\ top_ = NONE
          /\ nemptypop < MaxEmptyPop
          /\ nemptypop' = nemptypop + 1
          /\ UNCHANGED <<elements_, data_, top_, id_, ub, run, track, npop>>
       \/ /\ top_ # NONE
          /\ top_ \notin 0 .. Len(data_) - 1
          /\ ub' = TRUE
          /\ UNCHANGED <<elements_, data_, top_, id_, run, track, npop, nemptypop>>
       \/ /\ top_ \in 0 .. Len(data_) - 1
          /\ popLoops(Heap).ended
          /\ LET h == pop(Heap)
             IN  /\ elements_' = h.elements_
                 /\ data_' = h.data_
                 /\ top_' = h.top_
                 /\ id_' = h.id_
          /\ run' = Append(run, top(Heap).val)
          /\ track' = MapErase(track, top_)
          /\ npop' = npop + 1
          /\ UNCHANGED <<ub, nemptypop>>
    /\ UNCHANGED <<variant, env, outcome, reversemap_, npush, misuse, updated, snap>>

Next ==
    \/ PushCall
    \/ UpdateCall
    \/ PopCall
    \/ IntPopCall
    \/ PhPushCall
    \/ PhPopCall

Spec == Init /\ [][Next]_vars

\* The decrease-key example of the documentation: 5, 3, 8, 1 are pushed and
\* the item valued 8 is updated to 0.
ExampleVals == {0, 1, 3, 5, 8}
ExamplePushes == <<5, 3, 8, 1>>

\* A mutable heap (either locator) whose callers use the example's values;
\* they push either freely or the example's values in its order.
InitDK ==
    /\ Constructed
    /\ variant \in {"ext", "int"}
    /\ \E sc \in {<<>>, ExamplePushes} :
         env = [vals |-> ExampleVals, script |-> sc, contract |-> TRUE]

NextDK ==
    \/ PushCall
    \/ UpdateCall
    \/ PopCall
    \/ IntPopCall

SpecDK == InitDK /\ [][NextDK]_vars

\* A pairing_heap alone.
InitPh ==
    /\ variant = "simple"
    /\ env = [vals |-> Values, script |-> <<>>, contract |-> TRUE]
    /\ Constructed

NextPh ==
    \/ PhPushCall
    \/ PhPopCall

SpecPh == InitPh /\ [][NextPh]_vars

\* The three heaps with callers that also call top(), also on an empty heap,
\* update items that are not stored, and run out of memory in push; they use
\* two priorities.
FaultVals == {0, 1}

InitFaults ==
    /\ variant \in Variants
    /\ env = [vals |-> FaultVals, script |-> <<>>, contract |-> TRUE]
    /\ Constructed

NextFaults ==
    \/ PushCall
    \/ UpdateCall
    \/ PopCall
    \/ IntPopCall
    \/ PhPushCall
    \/ PhPopCall
    \/ TopCall
    \/ PushThrows
    \/ PhPushThrows
    \/ UntrackedUpdateCall

SpecFaults == InitFaults /\ [][NextFaults]_vars

\* An internal-map heap of plain values, where a value may be pushed again
\* while it is stored.
InitValues ==
    /\ variant = "int"
    /\ env = [vals |-> Values, script |-> <<>>, contract |-> TRUE]
    /\ Constructed

NextValues ==
    \/ PushValueCall
    \/ PopValueCall

SpecValues == InitValues /\ [][NextValues]_vars

\* A mutable heap whose callers also update items to worse values; they use
\* two priorities.
MisuseVals == {0, 1}

InitMisuse ==
    /\ variant \in {"ext", "int"}
    /\ env = [vals |-> MisuseVals, script |-> <<>>, contract |-> FALSE]
    /\ Constructed

NextMisuse ==
    \/ PushCall
    \/ UpdateCall
    \/ PopCall
    \/ IntPopCall

SpecMisuse == InitMisuse /\ [][NextMisuse]_vars

\* A heap built by any constructor that compiles: the three classes by their
\* constructor taking a comparison (pairing_heap's default constructor is
\* that one, its comparison defaulted), and mutable_pairing_heap_impl by its
\* default constructor.  The default constructor of the internal-map form
\* (lines 622-623) has no initializer for id_, whose type has no default
\* constructor, and does not compile when used.  The range and initializer-
\* list constructors are the one taking a comparison followed by push calls.
\* The callers use two priorities.
BuildVals == {0, 1}

InitConstructors ==
    /\ env = [vals |-> BuildVals, script |-> <<>>, contract |-> TRUE]
    /\ \/ variant \in Variants /\ Constructed
       \/ variant = "impl" /\ DefaultConstructed

NextConstructors ==
    \/ PushCall
    \/ UpdateCall
    \/ PopCall
    \/ IntPopCall
    \/ PhPushCall
    \/ PhPopCall
    \/ ImplPushCall
    \/ ImplPopCall

SpecConstructors == InitConstructors /\ [][NextConstructors]_vars

-----------------------------------------------------------------------------
\* What the statements below speak of.  The stored items are known from the
\* calls (track), not from the heap's own fields.

\* The arena indices of the stored items.
Live == DOMAIN track

\* n is an index into data_, and its item_index an index into elements_.
InArena(n) == n \in 0 .. Len(data_) - 1
HasValue(n) == InArena(n) /\ At(data_, n).item_index \in 0 .. Len(elements_) - 1

\* elements_[data_[n].item_index]
ValueOf(n) == At(elements_, At(data_, n).item_index)

\* The order the callers mean: a is preferred over b.
Better(a, b) == a < b

Distinct(q) == \A i, j \in 1 .. Len(q) : i # j => q[i] # q[j]
IsPrefix(r, q) == Len(r) <= Len(q) /\ \A i \in 1 .. Len(r) : r[i] = q[i]
Range(q) == {q[i] : i \in 1 .. Len(q)}

\* q without its i-th element.
Without(q, i) == SubSeq(q, 1, i - 1) \o SubSeq(q, i + 1, Len(q))

\* q in non-decreasing order.
RECURSIVE Sorted(_)
Sorted(q) ==
    IF q = <<>> THEN <<>>
    ELSE LET i == CHOOSE j \in 1 .. Len(q) : \A k \in 1 .. Len(q) : q[j] <= q[k]
         IN  <<q[i]>> \o Sorted(Without(q, i))

\* The chain c, c.right_sibling, ... up to NONE, cut after k nodes and at an
\* index outside data_.
RECURSIVE Chain(_, _)
Chain(c, k) ==
    IF c = NONE \/ k = 0 THEN <<>>
    ELSE IF ~InArena(c) THEN <<c>>
    ELSE <<c>> \o Chain(At(data_, c).right_sibling, k - 1)

\* The children of p as its child chain lists them.
Children(p) == Chain(At(data_, p).child, Len(data_) + 1)

\* The nodes reached from the nodes of S by child and right_sibling links.
RECURSIVE Below(_, _)
Below(S, k) ==
    LET N == S \cup {m \in 0 .. Len(data_) - 1 :
                       \E n \in S : InArena(n) /\
                          (At(data_, n).child = m \/ At(data_, n).right_sibling = m)}
    IN  IF k = 0 \/ N = S THEN S ELSE Below(N, k - 1)

\* The k-th ancestor of n by parent links (NONE when there is none).
RECURSIVE Up(_, _)
Up(n, k) ==
    IF k = 0 \/ n = NONE \/ ~InArena(n) THEN n
    ELSE Up(At(data_, n).parent, k - 1)

OwnAncestor(n) == \E k \in 1 .. Len(data_) : Up(n, k) = n

\* The depth of a stored node (the root has depth 0).
Depth(n) == Cardinality({k \in 1 .. Len(data_) : Up(n, k) # NONE})

-----------------------------------------------------------------------------
\* C1. Heap order: in a mutable pairing heap, after any push, pop and
\* decrease-key update calls, no stored node's value is preferred over the
\* value of its parent.
C1_HeapOrder ==
    variant \in {"ext", "int"} =>
        \A c \in Live :
            /\ HasValue(c)
            /\ LET p == At(data_, c).parent
               IN  p # NONE =>
                     /\ HasValue(p)
                     /\ ~Better(ValueOf(c).val, ValueOf(p).val)

\* A key was decreased, a pop has rebuilt the tree, and a node lies two levels
\* under the root with a strictly worse value than its parent.
C1_Witness ==
    /\ variant = "ext"
    /\ updated
    /\ npop > 0
    /\ C1_HeapOrder
    /\ \E c \in Live :
         /\ Depth(c) >= 2
         /\ Better(ValueOf(At(data_, c).parent).val, ValueOf(c).val)

\* C2. Extract-min ordering: after n distinct values are pushed and nothing
\* else is done, the pops return them in increasing order, and after the n-th
\* pop the heap is empty.
C2_ExtractOrder ==
    (~updated /\ npop = Len(run) /\ Distinct(snap)) =>
        /\ IsPrefix(run, Sorted(snap))
        /\ Len(run) = Len(snap) => (empty(Heap) /\ top_ = NONE)

\* Four distinct values were pushed, not in their order, and all four popped.
C2_Witness ==
    /\ ~updated
    /\ npop = Len(run)
    /\ Distinct(snap)
    /\ Len(run) >= 4
    /\ run = Sorted(snap)
    /\ run # snap
    /\ Len(elements_) = 0

\* C3. Top is an extremum: whenever items are stored, top() is the value of
\* a stored item and no stored item's value is preferred over it.
C3_TopExtremum ==
    Live # {} =>
        /\ HasValue(top_)
        /\ LET v == ValueOf(top_).val
           IN  /\ \E n \in Live : track[n].cur = v
               /\ \A n \in Live : ~Better(track[n].cur, v)

\* Three items of different values are stored after an update and a pop.
C3_Witness ==
    /\ Cardinality(Live) >= 3
    /\ Cardinality({track[n].cur : n \in Live}) >= 3
    /\ updated
    /\ npop > 0
    /\ C3_TopExtremum

\* C4. Decrease-key correctness: in a mutable heap whose keys were decreased
\* (between pushes and pops too), the pops that follow return the stored
\* values in increasing order of their current values down to the empty heap;
\* after pushing 5, 3, 8, 1 and decreasing the 8 to 0 they return 0, 1, 3, 5.
C4_DecreaseKey ==
    /\ updated =>
         /\ IsPrefix(run, Sorted(snap))
         /\ Len(run) = Len(snap) => empty(Heap)
    /\ (/\ env.script = ExamplePushes
        /\ npop = Len(run)
        /\ snap = <<5, 3, 0, 1>>) => IsPrefix(run, <<0, 1, 3, 5>>)

\* The example itself: 5, 3, 8, 1 pushed, a key decreased, and 0, 1, 3, 5
\* popped.
C4_Witness ==
    /\ env.script = ExamplePushes
    /\ updated
    /\ snap = <<5, 3, 0, 1>>
    /\ npop = 4
    /\ run = <<0, 1, 3, 5>>
    /\ Len(elements_) = 0

C6_PopEmptyNoop == [][nemptypop' # nemptypop => UNCHANGED code]_vars

\* C7. Stress: a pairing_heap returns what was pushed (repeated values too)
\* in non-decreasing order: the pops since the last push return the smallest
\* values stored at that push, in order, down to the empty heap.
C7_SortedPops ==
    variant = "simple" =>
        /\ IsPrefix(run, Sorted(snap))
        /\ Len(run) = Len(snap) => (empty(Heap) /\ top_ = NONE)

\* A pop, then pushes of values with a repeated one, then every value popped.
C7_Witness ==
    /\ variant = "simple"
    /\ npop > Len(run)
    /\ Len(run) >= 3
    /\ ~Distinct(run)
    /\ Cardinality(Range(run)) >= 2
    /\ run = Sorted(snap)
    /\ run # snap

\* C8. Round-trip identity: the locator resolves every stored item to the
\* arena node made at its push, and the value stored for that node is the
\* item with the value of its last update (or push).
C8_RoundTrip ==
    variant \in {"ext", "int"} =>
        \A n \in Live :
            /\ track[n].id \in DOMAIN id_
            /\ id_[track[n].id] = n
            /\ HasValue(n)
            /\ ValueOf(n) = [id |-> track[n].id, val |-> track[n].cur]

\* After a pop moved a value to another slot and an update, an item is stored
\* whose value slot is not the one it was pushed into.
C8_Witness ==
    /\ variant \in {"ext", "int"}
    /\ updated
    /\ npop > 0
    /\ C8_RoundTrip
    /\ \E n \in Live : At(data_, n).item_index # n /\ track[n].id # n + 1

\* C9. Single root tree: when items are stored, top_ is the one stored node
\* without a parent, every stored node is reached from top_ by child and
\* right_sibling links, and no node is its own ancestor.
C9_SingleRoot ==
    Live # {} =>
        /\ top_ \in Live
        /\ \A n \in Live : InArena(n)
        /\ {n \in Live : At(data_, n).parent = NONE} = {top_}
        /\ Below({top_}, Len(data_)) = Live
        /\ \A n \in Live : ~OwnAncestor(n)

\* After a pop and an update, three items are stored, one two levels down.
C9_Witness ==
    /\ Cardinality(Live) >= 3
    /\ npop > 0
    /\ updated
    /\ C9_SingleRoot
    /\ \E n \in Live : Depth(n) >= 2

\* C10. Leftmost-child/right-sibling encoding: the child chain of every
\* stored node ends, lists exactly the stored nodes whose parent it is, its
\* first node has no left sibling and each later node's left sibling is the
\* node before it.
C10_ChildChains ==
    \A p \in Live :
        /\ InArena(p)
        /\ LET ch == Children(p)
           IN  /\ Len(ch) <= Len(data_)
               /\ Distinct(ch)
               /\ Range(ch) = {c \in Live : InArena(c) /\ At(data_, c).parent = p}
               /\ \A c \in Live : InArena(c)
               /\ ch # <<>> => At(data_, ch[1]).left_sibling = NONE
               /\ \A i \in 2 .. Len(ch) :
                    LET l == At(data_, ch[i]).left_sibling
                    IN  /\ l = ch[i - 1]
                        /\ At(data_, l).right_sibling = ch[i]

\* After a pop and an update a stored node has two children or more.
C10_Witness ==
    /\ npop > 0
    /\ updated
    /\ C10_ChildChains
    /\ \E p \in Live : Len(Children(p)) >= 2

\* How many times x occurs in q.
Count(q, x) == Cardinality({i \in 1 .. Len(q) : q[i] = x})

\* The stored values of the step's end are those of its start with one
\* occurrence of each item of out taken away and one of each item of in added.
Exchanged(out, in) ==
    \A y \in Range(elements_) \cup Range(elements_') \cup out \cup in :
        Count(elements_', y) = Count(elements_, y)
                               - (IF y \in out THEN 1 ELSE 0)
                               + (IF y \in in THEN 1 ELSE 0)

\* C11. pop removes exactly the top: a pop on a non-empty heap removes one
\* occurrence of the value top() returned just before it and leaves the
\* multiset of the other stored values as it was; push(v) adds exactly one
\* occurrence of v; update changes only the value of the item it addresses.
C11_ExactEffect ==
    [][/\ npop' = npop + 1 => Exchanged({ValueOf(top_)}, {})
       /\ npush' = npush + 1 =>
            LET n == Len(data_)
            IN  Exchanged({}, {[id |-> track'[n].id, val |-> track'[n].cur]})
       /\ (npush' = npush /\ npop' = npop /\ nemptypop' = nemptypop) =>
            \E n \in Live :
                /\ track' = [track EXCEPT ![n].cur = track'[n].cur]
                /\ IF track'[n].cur = track[n].cur
                   THEN Exchanged({}, {})
                   ELSE Exchanged({[id |-> track[n].id, val |-> track[n].cur]},
                                  {[id |-> track[n].id, val |-> track'[n].cur]})
      ]_vars

\* Pushes, an update and a pop that moved a value to another slot have been
\* made, and two or more values are still stored, two of them equal.
C11_Witness ==
    /\ npush >= 3
    /\ updated
    /\ npop > 0
    /\ Len(elements_) >= 2
    /\ \E n \in Live : At(data_, n).item_index # n
    /\ \E n, m \in Live : n # m /\ track[n].cur = track[m].cur

\* C12. Value-slot consistency: after every push, pop and update (the items
\* distinct under the locator), the item_index fields of the stored nodes are
\* pairwise distinct and are exactly the indices 0 .. size() - 1 of elements_.
C12_ValueSlots ==
    /\ \A n \in Live : InArena(n)
    /\ \A n, m \in Live : n # m => At(data_, n).item_index # At(data_, m).item_index
    /\ {At(data_, n).item_index : n \in Live} = 0 .. size(Heap) - 1

\* After a pop moved a value, an update and a push into the arena grown past
\* the value array, three items are stored and one is not in its first slot.
C12_Witness ==
    /\ npop > 0
    /\ updated
    /\ Cardinality(Live) >= 3
    /\ Len(data_) > Len(elements_)
    /\ Len(data_) - 1 \in Live
    /\ \E n \in Live : At(data_, n).item_index # n
    /\ C12_ValueSlots

\* C13. Internal-map locator lifecycle: in the internal-map heap with distinct
\* items, after every push, pop and update the keys of map_ are exactly the
\* items stored, and each key maps to the arena index of the node holding that
\* item; so pop erases the entry of the item it extracts and makes no other.
C13_InternalMap ==
    variant = "int" =>
        /\ DOMAIN id_ = {Key(ValueOf(n)) : n \in Live}
        /\ DOMAIN id_ = LiveIds
        /\ \A n \in Live : id_[track[n].id] = n /\ Key(ValueOf(n)) = track[n].id

\* An internal-map heap after pushes, an update, a pop that moved a value and
\* a push that took the identity of an extracted item.
C13_Witness ==
    /\ variant = "int"
    /\ updated
    /\ npop > 0
    /\ Cardinality(Live) >= 2
    /\ \E n \in Live : At(data_, n).item_index # n
    /\ \E n \in Live : track[n].id # n + 1
    /\ C13_InternalMap

\* The links of node n in the arena d.
Links(d, n) == {At(d, n).parent, At(d, n).child,
                At(d, n).left_sibling, At(d, n).right_sibling}

\* C14. Extraction invalidates the node and its locator entry: after a pop on
\* a non-empty mutable heap, under the external and the internal locator, the
\* links of the extracted node are NONE, no stored node's link refers to it,
\* and the locator holds no entry resolving the extracted item to an arena
\* index.
C14_ExtractionInvalidates ==
    [][(variant \in {"ext", "int"} /\ npop' = npop + 1) =>
         LET x == top_
             item == ValueOf(top_)
         IN  /\ Links(data_', x) = {NONE}
             /\ \A n \in DOMAIN track' : x \notin Links(data_', n)
             /\ ~(/\ Key(item) \in DOMAIN id_'
                  /\ id_'[Key(item)] \in 0 .. Len(data_') - 1)
      ]_vars

\* C15. One arena node per live item: after any push and pop calls the number
\* of records in data_ is size().
C15_ArenaSize == ~updated => Len(data_) = size(Heap)

\* The step is a call of update.
UpdateStep == npush' = npush /\ npop' = npop /\ nemptypop' = nemptypop

\* The stored nodes of the step's start that are still stored at its end and
\* whose item_index the step changed.
Moved == {n \in Live \cap DOMAIN track' :
            At(data_', n).item_index # At(data_, n).item_index}

\* C16. Index stability: push and update change neither the arena index nor
\* the item_index of an item already stored; pop changes the item_index of at
\* most one surviving item, the one whose value was in the last slot of
\* elements_, and the arena index of no surviving item.
C16_IndexStability ==
    [][/\ \A n \in Live \cap DOMAIN track' :
            LET before == ValueOf(n)
                after == At(elements_', At(data_', n).item_index)
            IN  /\ Key(after) = Key(before)
                /\ ~UpdateStep => after = before
                /\ variant \in {"ext", "int"} =>
                      id_'[Key(before)] = n /\ id_[Key(before)] = n
       /\ (npush' = npush + 1 \/ UpdateStep) => Moved = {}
       /\ npop' = npop + 1 =>
            /\ Cardinality(Moved) <= 1
            /\ \A n \in Moved : At(data_, n).item_index = Len(elements_) - 1
      ]_vars

\* Pops have moved values, so that two stored items are not in the slots they
\* were pushed into, and an update and a later push were made.
C16_Witness ==
    /\ npop >= 2
    /\ updated
    /\ Len(data_) - 1 \in Live
    /\ Cardinality({n \in Live : At(data_, n).item_index # n}) >= 2

\* C17. Allocation-failure atomicity: a push that fails with a
\* resource-exhaustion error at any of its growth steps leaves the heap as it
\* was before the call: size(), the arena, the locator, every link and top_.
C17_PushAtomic ==
    [][outcome'.thrown = "bad_alloc" /\ outcome.thrown = "none" =>
         /\ size(Heap)' = size(Heap)
         /\ UNCHANGED <<elements_, data_, top_, id_, reversemap_>>
      ]_vars

\* C18. top() on an empty heap fails as a precondition violation: it is
\* reported as an error, returns no value and reads no arena node and no
\* value slot.
C18_TopOnEmpty ==
    [][outcome'.violated = "top" /\ outcome.violated = "none" =>
         /\ outcome'.thrown # "none"
         /\ outcome'.returned = outcome.returned
         /\ ~ub'
      ]_vars

\* C19. update(x) for an item the locator does not track (never pushed, or
\* extracted) fails fast with a not-found error and leaves every stored
\* value, every link, top_ and the locator as they were.
C19_UpdateUntracked ==
    [][outcome'.violated = "update" /\ outcome.violated = "none" =>
         /\ outcome'.thrown # "none"
         /\ ~ub'
         /\ UNCHANGED <<elements_, data_, top_, id_>>
      ]_vars

\* C20. push melding and tie-break: push(v) on an empty heap makes the new
\* node top_ with all links NONE; on a non-empty heap, if v is preferred over
\* the value of top_ the old top becomes the only child of the new node and
\* the new node becomes top_, otherwise (ties too) the new node becomes the
\* leftmost child of the unchanged top_; besides the new node and the old top
\* only the former leftmost child changes, in its left_sibling.
C20_PushMeld ==
    [][npush' = npush + 1 =>
         LET n == Len(data_)
             v == track'[n].cur
             node == At(data_', n)
             t == top_
             Others(S) == \A m \in (0 .. n - 1) \ S : At(data_', m) = At(data_, m)
         IN  /\ Len(data_') = n + 1
             /\ IF t = NONE
                THEN /\ top_' = n
                     /\ Links(data_', n) = {NONE}
                     /\ Others({})
                ELSE IF Better(v, ValueOf(t).val)
                THEN /\ top_' = n
                     /\ node.child = t
                     /\ {node.parent, node.left_sibling, node.right_sibling} = {NONE}
                     /\ At(data_', t) = [At(data_, t) EXCEPT !.parent = n]
                     /\ Others({t})
                ELSE LET c == At(data_, t).child
                     IN  /\ top_' = t
                         /\ node.parent = t
                         /\ node.right_sibling = c
                         /\ {node.child, node.left_sibling} = {NONE}
                         /\ At(data_', t) = [At(data_, t) EXCEPT !.child = n]
                         /\ c # NONE =>
                              At(data_', c) = [At(data_, c) EXCEPT !.left_sibling = n]
                         /\ Others({t, c})
      ]_vars

\* The last call was a push, made after a pop, of a value equal to the top's:
\* the new node is the leftmost child of the top, before a former first child.
C20_Witness ==
    /\ npop > 0
    /\ ~updated
    /\ run = <<>>
    /\ LET n == Len(data_) - 1
       IN  /\ n \in Live
           /\ n # top_
           /\ At(data_, n).parent = top_
           /\ At(data_, top_).child = n
           /\ At(data_, n).right_sibling # NONE
           /\ At(data_, At(data_, n).right_sibling).left_sibling = n
           /\ ValueOf(n).val = ValueOf(top_).val

\* The reference two-pass pairing procedure, on trees given as kids, the
\* children of each node in order.  Meld a and b, a first: the preferred node
\* takes the other as its first child (b on a tie).
RefWinner(a, b) == IF Better(ValueOf(a).val, ValueOf(b).val) THEN a ELSE b
RefMeld(kids, a, b) ==
    LET w == RefWinner(a, b)
        l == IF w = a THEN b ELSE a
    IN  [kids EXCEPT ![w] = <<l>> \o kids[w]]

\* The pairs of cs left to right; ws lists the winners made so far, melds
\* counts the melds.
RECURSIVE RefPairs(_, _, _, _)
RefPairs(kids, cs, ws, melds) ==
    IF Len(cs) >= 2
    THEN RefPairs(RefMeld(kids, cs[1], cs[2]), SubSeq(cs, 3, Len(cs)),
                  Append(ws, RefWinner(cs[1], cs[2])), melds + 1)
    ELSE [kids |-> kids, ws |-> ws \o cs, melds |-> melds]

\* The winners ws folded into acc from the last back to the first.
RECURSIVE RefFold(_, _, _, _)
RefFold(kids, ws, acc, melds) ==
    IF ws = <<>> THEN [kids |-> kids, root |-> acc, melds |-> melds]
    ELSE LET m == ws[Len(ws)]
         IN  RefFold(RefMeld(kids, m, acc), SubSeq(ws, 1, Len(ws) - 1),
                     RefWinner(m, acc), melds + 1)

\* The reference result of a pop of the tree with the children cs of its root.
RefPop(kids, cs) ==
    LET p == RefPairs(kids, cs, <<>>, 0)
    IN  IF p.ws = <<>> THEN [kids |-> kids, root |-> NONE, melds |-> 0]
        ELSE RefFold(p.kids, SubSeq(p.ws, 1, Len(p.ws) - 1), p.ws[Len(p.ws)],
                     p.melds)

\* The merge calls pop makes in its two loops.
MergesOfPop ==
    LET p1 == PairingPass(elements_, data_, At(data_, top_).child, NONE, NONE, 0)
        p2 == OddChild(p1.data_, p1.index1, p1.prev_pair, p1.new_top)
        p3 == AccumulatePass(elements_, p2.data_, p2.new_top, 0)
    IN  p1.n + p3.n

PlaceIn(q, n) == IF n \in Range(q) THEN CHOOSE i \in 1 .. Len(q) : q[i] = n ELSE 0

\* What an update of the stored non-root node n to the value v does to the
\* trees: n leaves the child list of its parent, whose other children keep
\* their order, n keeps its own children, and n and the top are melded as in
\* push.
NonRootUpdate(n, v) ==
    LET p == At(data_, n).parent
        t == top_
        kids0 == [q \in Live |-> Children(q)]
        kids1 == [kids0 EXCEPT ![p] = Without(kids0[p], PlaceIn(kids0[p], n))]
        wins == Better(v, ValueOf(t).val)
        kids2 == IF wins THEN [kids1 EXCEPT ![n] = <<t>> \o kids1[n]]
                         ELSE [kids1 EXCEPT ![t] = <<n>> \o kids1[t]]
    IN  /\ p \in Live
        /\ PlaceIn(kids0[p], n) > 0
        /\ top_' = IF wins THEN n ELSE t
        /\ At(data_', n).parent = IF wins THEN NONE ELSE t
        /\ At(data_', n).left_sibling = NONE
        /\ \A q \in Live : Children(q)' = kids2[q]
        /\ \A q \in Live \ {n} :
               At(data_', q).parent = IF wins /\ q = t THEN n
                                      ELSE At(data_, q).parent

\* C22. update of a non-root node n: n is unlinked from the child chain of
\* its parent (its neighbours become adjacent, or its right neighbour the
\* first child), keeps its subtree, and is melded with top_ as in push: if
\* its new value is preferred the old top becomes its leftmost child and it
\* becomes top_, otherwise it becomes the leftmost child of top_; the order
\* of its former siblings is unchanged.  (A step of update that changes the
\* links is the update of some non-root node.)
C22_UpdateNonRoot ==
    [][UpdateStep =>
         \E n \in Live :
             /\ track' = [track EXCEPT ![n].cur = track'[n].cur]
             /\ IF n = top_ THEN data_' = data_ /\ top_' = top_
                            ELSE NonRootUpdate(n, track'[n].cur)
      ]_vars

\* A node with a child of its own and a neighbour in its parent's chain was
\* updated to the one best value stored: it is the root now, over the old
\* root, which keeps the neighbour, and over its own child.
C22_Witness ==
    /\ updated
    /\ run = <<>>
    /\ Cardinality(Live) >= 4
    /\ Len(Children(top_)) >= 2
    /\ LET c == Children(top_)[1]
       IN  /\ Children(c) # <<>>
           /\ Better(ValueOf(top_).val, ValueOf(c).val)
    /\ \E i \in 1 .. Len(snap) : \A j \in 1 .. Len(snap) : i # j => snap[i] < snap[j]

\* C23. update of the root: when the locator resolves the item to the current
\* top_, update only overwrites its stored value; top_, every link of every
\* node, the locator and size() are unchanged.
C23_UpdateRoot ==
    [][(UpdateStep /\ top_ \in Live /\ track'[top_] # track[top_]) =>
         /\ elements_' = [elements_ EXCEPT ![At(data_, top_).item_index + 1] =
                             [id |-> track[top_].id, val |-> track'[top_].cur]]
         /\ size(Heap)' = size(Heap)
         /\ UNCHANGED <<data_, top_, id_>>
      ]_vars

\* The root, which has two children or more and is not in the value slot it
\* was pushed into, was updated to a value better than every other stored.
C23_Witness ==
    /\ updated
    /\ run = <<>>
    /\ npop > 0
    /\ top_ \in Live
    /\ At(data_, top_).item_index # top_
    /\ Len(Children(top_)) >= 2
    /\ \A n \in Live \ {top_} : Better(track[top_].cur, track[n].cur)
    /\ track[top_].cur = 0

\* r is d after merge(x, y) as its contract has it.
MergeContract(d, x, y, r) ==
    LET c == At(d, y).child
    IN  /\ Len(r) = Len(d)
        /\ At(r, x) = [At(d, x) EXCEPT !.parent = y, !.right_sibling = c]
        /\ At(r, y) = [At(d, y) EXCEPT !.child = x]
        /\ c # NONE => At(r, c) = [At(d, c) EXCEPT !.left_sibling = x]
        /\ \A m \in (0 .. Len(d) - 1) \ {x, y, c} : At(r, m) = At(d, m)

\* What every call site provides: x detached on its left, x and y parentless.
MergePre(d, x, y) ==
    /\ x # y
    /\ At(d, x).left_sibling = NONE
    /\ At(d, x).parent = NONE
    /\ At(d, y).parent = NONE

\* The calls of merge that the next call of push, update or pop makes from
\* the present state of a mutable heap.
NextMergeCalls ==
    Range(popCalls(Heap))
    \cup UNION {Range(pushCalls(Heap, [id |-> i, val |-> v])) :
                  i \in Ids \ LiveIds, v \in env.vals}
    \cup UNION {IF track[n].cur < v THEN {}
                ELSE Range(updateCalls(Heap, [id |-> track[n].id, val |-> v])) :
                  n \in Live, v \in env.vals}

\* C24. merge(x, y) contract: it sets x.parent = y, x.right_sibling = the
\* previous y.child, that child's left_sibling = x when it exists, and
\* y.child = x, and leaves x.left_sibling, x.child, y.parent, y's sibling
\* links and every other node untouched (merge of both classes); every call
\* of it in push, update and pop is made with x.left_sibling = NONE and with
\* x and y parentless.
C24_MergeContract ==
    variant \in {"ext", "int"} =>
        \A call \in NextMergeCalls :
            /\ MergePre(call.d, call.x, call.y)
            /\ MergeContract(call.d, call.x, call.y, merge(call.d, call.x, call.y))
            /\ MergeContract(call.d, call.x, call.y, ph_merge(call.d, call.x, call.y))

\* After an update the root has three children: the pop to come calls merge
\* twice, the second time with a y that has a child already.
C24_Witness ==
    /\ variant \in {"ext", "int"}
    /\ updated
    /\ Len(popCalls(Heap)) >= 2
    /\ LET call == popCalls(Heap)[2]
       IN  At(call.d, call.y).child # NONE
    /\ C24_MergeContract

\* C25. Emptiness agrees with the top pointer: after every push, pop and
\* update on a heap built by a constructor taking a comparison, top_ is NONE
\* iff size() is 0 iff empty() is true: the test pop makes and the one the
\* callers make never disagree.
C25_EmptyIffNoTop ==
    /\ (top_ = NONE) = (size(Heap) = 0)
    /\ (size(Heap) = 0) = empty(Heap)
    /\ (top_ = NONE) = (Live = {})

\* A heap emptied by as many pops as pushes, after an update.
C25_Witness ==
    /\ updated
    /\ npush >= 3
    /\ npop = npush
    /\ top_ = NONE
    /\ empty(Heap)
    /\ Len(data_) = npush
    /\ run # <<>>

\* C26. Scratch links are cleaned up: pop chains the pair winners by their
\* left_sibling, yet after every pop, push and update the node at top_ has
\* parent, left_sibling and right_sibling NONE, and the left_sibling of a
\* stored node is NONE or the stored node before it in the child chain of
\* their parent.
C26_NoScratchLeft ==
    /\ Live # {} =>
         /\ InArena(top_)
         /\ {At(data_, top_).parent, At(data_, top_).left_sibling,
             At(data_, top_).right_sibling} = {NONE}
    /\ \A n \in Live :
         LET l == At(data_, n).left_sibling
         IN  l # NONE =>
               /\ l \in Live
               /\ At(data_, l).right_sibling = n
               /\ At(data_, l).parent = At(data_, n).parent
               /\ At(data_, n).parent # NONE

\* A pop of a root with three children was made; the winner of the pair won
\* the fold too, so its scratch link was used and it has two children now.
C26_Witness ==
    /\ npush = 4
    /\ npop = 1
    /\ Len(run) = 1
    /\ Cardinality(Live) = 3
    /\ Len(Children(top_)) = 2
    /\ top_ # 1
    /\ ~updated
    /\ Len(snap) = 4
    /\ C26_NoScratchLeft

\* C27. Internal-map heap with repeated values: after any push and pop calls
\* of an internal-map heap keyed by the item value, equal values pushed more
\* than once included, the item_index of every stored node is an index below
\* size(), stored nodes have pairwise distinct item_index, and the pops
\* return the pushed values in compare order.
C27_RepeatedValues ==
    /\ \A n \in Live : At(data_, n).item_index \in 0 .. size(Heap) - 1
    /\ \A n, m \in Live : n # m => At(data_, n).item_index # At(data_, m).item_index
    /\ IsPrefix(run, Sorted(snap))
    /\ ~ub

\* The tree-shape invariants: one root at top_, well-formed child chains, no
\* cycle, the item_index bijection, the locator resolving every stored item.
WellFormed ==
    /\ C9_SingleRoot
    /\ C10_ChildChains
    /\ C12_ValueSlots
    /\ C8_RoundTrip
    /\ C26_NoScratchLeft

\* The stored nodes whose value is preferred over the value of their parent.
OutOfOrder ==
    {c \in Live : At(data_, c).parent # NONE
                  /\ Better(ValueOf(c).val, ValueOf(At(data_, c).parent).val)}

\* C28. Increase-key misuse keeps the structure well formed: update makes no
\* priority check, and after an update that worsens the priority of an item
\* (root or not, with children or without) the tree-shape invariants hold;
\* on a heap that was in order, only the order between the updated node and
\* its own children may be violated.
C28_IncreaseKey ==
    [][\A n \in Live :
         (UpdateStep /\ n \in DOMAIN track' /\ track[n].cur < track'[n].cur) =>
             /\ WellFormed'
             /\ ValueOf(n)' = [id |-> track[n].id, val |-> track'[n].cur]
             /\ OutOfOrder = {} =>
                  \A c \in OutOfOrder' : At(data_', c).parent = n
      ]_vars

\* After a pop, an item that is not the root and has children was given a
\* worse priority than a child of its own.
C28_Witness ==
    /\ misuse
    /\ npop > 0
    /\ run = <<>>
    /\ WellFormed
    /\ \E c \in OutOfOrder : At(data_, c).parent # top_

\* The pairing_heap that corresponds to the mutable heap h: the same arena
\* and top_, the values of the items in the same slots, and reversemap_
\* naming for each slot the node that refers to it.
AsPairingHeap(h) ==
    [elements_ |-> [i \in 1 .. Len(h.elements_) |->
                       [id |-> 0, val |-> h.elements_[i].val]],
     data_ |-> h.data_,
     top_ |-> h.top_,
     reversemap_ |-> [i \in 1 .. Len(h.elements_) |->
                        CHOOSE n \in 0 .. Len(h.data_) - 1 :
                            At(h.data_, n).item_index = i - 1]]

\* C29. The no-update variant is the same engine: on the same pushes and
\* pops, pairing_heap and the mutable heap (distinct items, no update) go
\* through the same data_, values of elements_ and top_ after each call, and
\* return the same top(): each push and pop of the mutable heap is matched
\* by the same call on the corresponding pairing_heap, from equal empty heaps.
C29_SameEngine ==
    /\ (variant \in {"ext", "int"} /\ npush = 0 /\ nemptypop = 0) =>
          AsPairingHeap(Heap) = [elements_ |-> <<>>, data_ |-> <<>>,
                                 top_ |-> NONE, reversemap_ |-> <<>>]
    /\ [][(variant \in {"ext", "int"} /\ ~updated' /\ ~ub') =>
            /\ npush' = npush + 1 =>
                 LET n == Len(data_)
                 IN  AsPairingHeap(Heap)' =
                       ph_push(AsPairingHeap(Heap), [id |-> 0, val |-> track'[n].cur])
            /\ (npop' = npop + 1 \/ nemptypop' = nemptypop + 1) =>
                 AsPairingHeap(Heap)' = ph_pop(AsPairingHeap(Heap))
            /\ npop' = npop + 1 =>
                 ph_top(AsPairingHeap(Heap)).val = top(Heap).val
         ]_vars

\* A mutable heap, never updated, after two pops or more that returned equal
\* values and moved a value, with two items or more still stored in a tree of
\* two levels or more.
C29_Witness ==
    /\ variant \in {"ext", "int"}
    /\ ~updated
    /\ npop >= 2
    /\ Len(elements_) >= 2
    /\ ~Distinct(run)
    /\ \E n \in Live : At(data_, n).item_index # n
    /\ \E n \in Live : At(data_, n).child # NONE

\* C30. reversemap_ mirrors the value array in pairing_heap: after every push
\* and pop reversemap_ is as long as elements_, and for every slot i below
\* size(), reversemap_[i] is the arena index of a stored node whose
\* item_index is i (repeated values allowed).
C30_Reversemap ==
    variant = "simple" =>
        /\ Len(reversemap_) = Len(elements_)
        /\ \A i \in 0 .. size(PhHeap) - 1 :
              LET n == At(reversemap_, i)
              IN  /\ n \in Live
                  /\ InArena(n)
                  /\ At(data_, n).item_index = i

\* A pairing_heap holding a repeated value after pops: a slot belongs to a
\* node that was not pushed into it, and a push came after the pops.
C30_Witness ==
    /\ variant = "simple"
    /\ npop >= 2
    /\ Len(elements_) >= 2
    /\ Len(data_) - 1 \in Live
    /\ \E i \in 0 .. Len(elements_) - 1 : At(reversemap_, i) # i
    /\ \E n, m \in Live : n # m /\ ValueOf(n) = ValueOf(m)
    /\ C30_Reversemap

\* C31. Every constructor yields an empty heap whose top pointer is NONE, the
\* default constructors included: while no push has been made, elements_ is
\* empty and top_ is NONE, and the first push takes the branch for an empty
\* heap, so that it reads nothing outside the vectors, makes no merge and
\* leaves the new node, all of its links NONE, as top_.
C31_Constructors ==
    /\ [](data_ = <<>> => (elements_ = <<>> /\ top_ = NONE))
    /\ [][(data_ = <<>> /\ data_' # <<>>) =>
            (~ub' /\ top_' = 0 /\ data_' = <<NewNode(0)>>)]_vars

\* C32. pop terminates: on a heap reached by push, pop and update calls (for
\* a default-constructed one, up to its first pop), the child chain of the
\* top is finite and acyclic, the first loop of pop goes once through each
\* pair of its children and leaves the odd last child, the second loop goes
\* once through each pair winner but the last, and both loops end.
C32_PopTerminates ==
    (/\ ~ub
     /\ InUse
     /\ InArena(top_)
     /\ variant = "impl" => npop = 0)
    => LET kids == Children(top_)
           k == Len(kids)
           l == IF variant = "simple" THEN ph_popLoops(PhHeap) ELSE popLoops(Heap)
       IN  /\ Distinct(kids)
           /\ \A i \in 1 .. k : InArena(kids[i])
           /\ l.ended
           /\ l.pairs = k \div 2
           /\ l.odd = (IF k % 2 = 1 THEN kids[k] ELSE NONE)
           /\ l.folds = (IF k = 0 THEN 0 ELSE (k + 1) \div 2 - 1)

=============================================================================
